---- MODULE Spec2Model ----
(***************************************************************************)
(* Model of the HX711 load-cell driver (src/src/main.py, class Loadcell)   *)
(* together with the device it drives, as simulated by                     *)
(* src/tests/mock_hx711.py.  Calls on one instance are serialized by the   *)
(* host: no method of Loadcell suspends between its first and last         *)
(* statement, so every public method is one atomic action.                 *)
(*                                                                         *)
(* Numbers that are floats in the source (tare_offset, measures, weight)   *)
(* are exact rationals here: [num |-> Int, den |-> Nat \ {0}], normalised. *)
(***************************************************************************)
EXTENDS Integers, Sequences, FiniteSets, TLC

\* ------------------------------------------------------------------ bounds

\* Largest numberOfReadings a configuration of the model asks for.
MaxReadings == 3

\* ------------------------------------------------------- program constants

CountsPerKg == 8200
DefaultGain == 64
DefaultDoutPin == 5
DefaultSckPin == 6
DefaultNumberOfReadings == 3
DefaultTareOffset == 0

\* ------------------------------------------------------- exact arithmetic

Abs(x) == IF x < 0 THEN 0 - x ELSE x

RECURSIVE GCD(_, _)
GCD(a, b) == IF b = 0 THEN a ELSE GCD(b, a % b)

Rat(n, d) ==
    LET g == GCD(Abs(n), d)
    IN  [num |-> n \div g, den |-> d \div g]

FromInt(i) == [num |-> i, den |-> 1]

RSub(a, b) == Rat(a.num * b.den - b.num * a.den, a.den * b.den)

RAdd(a, b) == Rat(a.num * b.den + b.num * a.den, a.den * b.den)

RDivInt(a, k) == Rat(a.num, a.den * k)

RMulInt(a, k) ==
    LET g == GCD(Abs(k), a.den)
    IN  Rat(a.num * (k \div g), a.den \div g)

RECURSIVE SumInt(_)
SumInt(S) == IF S = <<>> THEN 0 ELSE Head(S) + SumInt(Tail(S))

RECURSIVE SumRat(_)
SumRat(Q) == IF Q = <<>> THEN FromInt(0) ELSE RAdd(Head(Q), SumRat(Tail(Q)))

\* ------------------------------------------------------------- exceptions

\* Exceptions are told apart by what they are: the same name is the same
\* exception object.
NoExc == "none"
ConstructError == "Hardware initialization failed"
ResetError == "Simulated reset error"
ReadError == "Simulated hardware error during reading"
TimeoutError == "TimeoutError"
NotResetError == "HX711 not reset before reading"
TypeError == "TypeError"
ZeroDivisionError == "ZeroDivisionError"
PermissionError == "PermissionError"

\* What the constructor, reset() and get_raw_data() of the device can raise.
FetchErrors == {ReadError, TimeoutError}
GpioErrors == {PermissionError}

\* ---------------------------------------------------------------- device

\* Python's None, as a value of its own kind.
None == [kind |-> "None"]

\* HX711(dout_pin, pd_sck_pin, channel, gain): a handle that is not reset yet.
HX711(dout, sck, channel, g) ==
    [kind |-> "HX711", dout_pin |-> dout, pd_sck_pin |-> sck,
     channel |-> channel, gain |-> g, is_reset |-> FALSE, call_count |-> 0]

\* Mutant of reset: the reset sequence runs twice.
reset_twice(h) == [h EXCEPT !.is_reset = TRUE, !.call_count = @ + 2]

\* handle.reset()
reset(h) == [h EXCEPT !.is_reset = TRUE, !.call_count = @ + 1]

\* Raw values the load cell produces (24-bit signed range).
RawValues == {81900, 82100}

SeqsOfLen(n) == [1..n -> RawValues]

\* What one get_raw_data(times) transaction can do: raise, hand back the
\* malformed list of the INVALID_DATA mode, or hand back `times` readings
\* (none when times <= 0).
FetchOutcomes(times) ==
    {[kind |-> "raise", exc |-> e, data |-> <<>>] : e \in FetchErrors}
    \cup {[kind |-> "invalid", exc |-> NoExc, data |-> <<>>]}
    \cup {[kind |-> "data", exc |-> NoExc, data |-> S] :
            S \in SeqsOfLen(IF times > 0 THEN times ELSE 0)}

\* handle.get_raw_data(times) under the transaction outcome f.
get_raw_data(h, times, f) ==
    IF ~h.is_reset
    THEN [kind |-> "raise", exc |-> NotResetError, data |-> <<>>]
    ELSE f

\* ---------------------------------------------------------------- driver

\* A Loadcell object: its attributes.  hx711 = Unset before the first
\* reconfigure (the attribute does not exist yet).
Unset == [kind |-> "Unset"]

\* What a call that raised returns: nothing.
NoReturn == [kind |-> "raised"]

\* The result of running a method on the object s: the object afterwards, the
\* exception that reaches the caller (NoExc when it returns), the value
\* returned, and what the call did to its collaborators: constructor calls,
\* reset() calls, get_raw_data() calls, what the last fetch handed back
\* ("none": no fetch, "raise", "invalid" or "data") and the samples in it, the
\* exceptions the collaborators raised, and the arguments of the
\* GPIO.cleanup() calls.
Out(s, e, r) ==
    [self |-> s, exc |-> e, ret |-> r, constructs |-> 0, resets |-> 0,
     fetches |-> 0, fetched |-> "none", samples |-> <<>>, raises |-> <<>>,
     cleanups |-> <<>>]

\* The collaborator `by` raised e during the call.
Raised(o, by, e) == [o EXCEPT !.raises = Append(@, [by |-> by, exc |-> e])]

\* get_raw_data handed back f during the call.
Fetched(o, f) ==
    LET b == [o EXCEPT !.fetches = @ + 1, !.fetched = f.kind,
                       !.samples = f.data, !.ret = NoReturn]
    IN  IF f.kind = "raise" THEN Raised(b, "get_raw_data", f.exc) ELSE b

\* Mutant of get_hx711_except: the failed object stays stored.
get_hx711_except_keeps_handle(o, e) == [o EXCEPT !.exc = e, !.ret = NoReturn]

\* except-branch of get_hx711: drop the failed object, store None, re-raise.
get_hx711_except(o, e) ==
    [o EXCEPT !.self.hx711 = None, !.exc = e, !.ret = NoReturn]

\* Mutant of get_hx711: no test for a stored handle, every call initialises.
get_hx711_always_init(s, hw) ==
    IF hw.construct # NoExc
    THEN [Raised([Out(s, NoExc, NoReturn) EXCEPT !.constructs = 1],
                 "HX711", hw.construct)
            EXCEPT !.self.hx711 = None, !.exc = hw.construct]
    ELSE LET h0 == HX711(s.doutPin, s.sckPin, "A", s.gain)
             o1 == [Out([s EXCEPT !.hx711 = h0], NoExc, NoReturn)
                      EXCEPT !.constructs = 1, !.resets = 1]
         IN  IF hw.reset # NoExc
             THEN [Raised(o1, "reset", hw.reset)
                     EXCEPT !.self.hx711 = None, !.exc = hw.reset]
             ELSE [o1 EXCEPT !.self.hx711 = reset(h0), !.ret = reset(h0)]

\* Mutant of get_hx711: the new handle is stored without reset().
get_hx711_no_reset(s, hw) ==
    IF s.hx711 # None
    THEN Out(s, NoExc, s.hx711)
    ELSE IF hw.construct # NoExc
    THEN get_hx711_except(
             Raised([Out(s, NoExc, NoReturn) EXCEPT !.constructs = 1],
                    "HX711", hw.construct),
             hw.construct)
    ELSE LET h == HX711(s.doutPin, s.sckPin, "A", s.gain)
         IN  [Out([s EXCEPT !.hx711 = h], NoExc, h) EXCEPT !.constructs = 1]

\* get_hx711(): hw.construct and hw.reset say what the constructor and
\* reset() raise (NoExc: they succeed).
get_hx711(s, hw) ==
    IF s.hx711 # None
    THEN Out(s, NoExc, s.hx711)
    ELSE IF hw.construct # NoExc
    THEN get_hx711_except(
             Raised([Out(s, NoExc, NoReturn) EXCEPT !.constructs = 1],
                    "HX711", hw.construct),
             hw.construct)
    ELSE LET s1 == [s EXCEPT !.hx711 = HX711(s.doutPin, s.sckPin, "A", s.gain)]
             o1 == [Out(s1, NoExc, NoReturn) EXCEPT !.constructs = 1, !.resets = 1]
         IN  IF hw.reset # NoExc
             THEN get_hx711_except(Raised(o1, "reset", hw.reset), hw.reset)
             ELSE LET h == reset(s1.hx711)
                  IN  [o1 EXCEPT !.self.hx711 = h, !.ret = h]

\* Mutant of measure_kg: the tare offset is not subtracted.
measure_kg_no_tare(measure, t) == RDivInt(FromInt(measure), CountsPerKg)

\* (measure - self.tare_offset) / 8200
measure_kg(measure, t) == RDivInt(RSub(FromInt(measure), t), CountsPerKg)

\* Mutant of avg_kgs: the sum is not divided by the number of measures.
avg_kgs_no_len(Q) == SumRat(Q)

\* sum(measures_kg) / len(measures_kg), for a non-empty list
avg_kgs(Q) == RDivInt(SumRat(Q), Len(Q))

\* Mutant of mean_raw: the offset is stored in kg, not in raw units.
mean_raw_in_kg(S) == Rat(SumInt(S), Len(S) * CountsPerKg)

\* Mutant of mean_raw: integer division.
mean_raw_floor(S) == FromInt(SumInt(S) \div Len(S))

\* sum(measures) / len(measures), for a non-empty list
mean_raw(S) == Rat(SumInt(S), Len(S))

\* Mutant of tare_kg: the offset is reported in raw units.
tare_kg_raw(t) == t

\* self.tare_offset / 8200
tare_kg(t) == RDivInt(t, CountsPerKg)

\* Mutant of get_readings_except: the handle stays stored.
get_readings_except_keeps_handle(o, e) == [o EXCEPT !.exc = e, !.ret = NoReturn]

\* except-branch of get_readings: store None in hx711, re-raise.
get_readings_except(o, e) ==
    [o EXCEPT !.self.hx711 = None, !.exc = e, !.ret = NoReturn]

\* Mutant of readings_map: the sample count is left out of the map.
readings_map_partial(s, measures_kg) ==
    [kind |-> "readings",
     doutPin |-> s.doutPin, sckPin |-> s.sckPin, gain |-> s.gain,
     tare_offset |-> tare_kg(s.tare_offset),
     measures |-> measures_kg,
     weight |-> avg_kgs(measures_kg)]

\* The map get_readings returns.
readings_map(s, measures_kg) ==
    [kind |-> "readings",
     doutPin |-> s.doutPin, sckPin |-> s.sckPin, gain |-> s.gain,
     numberOfReadings |-> s.numberOfReadings,
     tare_offset |-> tare_kg(s.tare_offset),
     measures |-> measures_kg,
     weight |-> avg_kgs(measures_kg)]

\* get_readings(): hw.fetch is the outcome of the get_raw_data transaction.
get_readings(s, hw) ==
    LET a == get_hx711(s, hw)
    IN  IF a.exc # NoExc
        THEN get_readings_except(a, a.exc)
        ELSE LET f == get_raw_data(a.ret, a.self.numberOfReadings, hw.fetch)
                 b == Fetched(a, f)
             IN  IF f.kind = "raise"
                 THEN get_readings_except(b, f.exc)
                 ELSE IF f.kind = "invalid"
                 THEN get_readings_except(b, TypeError)
                 ELSE IF Len(f.data) = 0
                 THEN get_readings_except(b, ZeroDivisionError)
                 ELSE LET measures_kg ==
                              [i \in 1..Len(f.data) |->
                                  measure_kg(f.data[i], b.self.tare_offset)]
                      IN  [b EXCEPT !.ret = readings_map(b.self, measures_kg)]

\* Mutant of tare_except: the handle is kept.
tare_except_keeps_handle(o, e) == [o EXCEPT !.exc = e, !.ret = NoReturn]

\* Mutant of tare_except: the pins are released with the handle.
tare_except_cleans_pins(o, e) ==
    [o EXCEPT !.self.hx711 = None, !.exc = e, !.ret = NoReturn,
              !.cleanups = Append(@, <<o.self.doutPin, o.self.sckPin>>)]

\* Mutant of tare_except: a failed tare also clears the offset.
tare_except_clears_offset(o, e) ==
    [o EXCEPT !.self.hx711 = None, !.self.tare_offset = FromInt(0),
              !.exc = e, !.ret = NoReturn]

\* except-branch of tare: store None in hx711, re-raise.
tare_except(o, e) ==
    [o EXCEPT !.self.hx711 = None, !.exc = e, !.ret = NoReturn]

\* tare()
tare(s, hw) ==
    LET a == get_hx711(s, hw)
    IN  IF a.exc # NoExc
        THEN tare_except(a, a.exc)
        ELSE LET f == get_raw_data(a.ret, a.self.numberOfReadings, hw.fetch)
                 b == Fetched(a, f)
             IN  IF f.kind = "raise"
                 THEN tare_except(b, f.exc)
                 ELSE IF f.kind = "invalid"
                 THEN tare_except(b, TypeError)
                 ELSE IF Len(f.data) = 0
                 THEN tare_except(b, ZeroDivisionError)
                 ELSE [b EXCEPT !.self.tare_offset = mean_raw(f.data), !.ret = None]

\* except-branch of cleanup_gpio_pins: the error is logged, nothing is raised.
cleanup_gpio_pins_except(o, e) == o

\* Mutant of cleanup_gpio_pins: GPIO.cleanup() with no argument, which
\* releases every pin.
cleanup_gpio_pins_global(o, gpio) == [o EXCEPT !.cleanups = Append(@, <<>>)]

\* cleanup_gpio_pins(): GPIO.cleanup((doutPin, sckPin)); gpio is what the
\* primitive raises (NoExc: nothing).
cleanup_gpio_pins(o, gpio) ==
    LET called == [o EXCEPT !.cleanups =
                       Append(@, <<o.self.doutPin, o.self.sckPin>>)]
    IN  IF gpio # NoExc
        THEN cleanup_gpio_pins_except(Raised(called, "GPIO.cleanup", gpio), gpio)
        ELSE called

\* except-branch of close: the error is logged, nothing is raised.
close_except(o, e) == [o EXCEPT !.exc = NoExc, !.ret = None]

\* Mutant of close: the tare offset is forgotten with the handle.
close_forgets_offset(s, gpio) ==
    LET o == cleanup_gpio_pins(
                 Out([s EXCEPT !.hx711 = None,
                               !.tare_offset = FromInt(DefaultTareOffset)],
                     NoExc, None),
                 gpio)
    IN  IF o.exc # NoExc THEN close_except(o, o.exc) ELSE o

\* Mutant of close: GPIO.cleanup is called with no try around it.
close_unprotected(s, gpio) ==
    LET s1 == IF s.hx711 # Unset /\ s.hx711 # None
              THEN [s EXCEPT !.hx711 = None]
              ELSE s
        called == [Out(s1, NoExc, None) EXCEPT !.cleanups =
                      Append(@, <<s1.doutPin, s1.sckPin>>)]
    IN  IF gpio # NoExc
        THEN [Raised(called, "GPIO.cleanup", gpio)
                EXCEPT !.exc = gpio, !.ret = NoReturn]
        ELSE called

\* close()
close(s, gpio) ==
    LET s1 == IF s.hx711 # Unset /\ s.hx711 # None
              THEN [s EXCEPT !.hx711 = None]
              ELSE s
        o == cleanup_gpio_pins(Out(s1, NoExc, None), gpio)
    IN  IF o.exc # NoExc THEN close_except(o, o.exc) ELSE o

\* The values of a do_command result.
False == [kind |-> "bool", val |-> FALSE]
Number(q) == [kind |-> "number", val |-> q]

\* What a call did, after what an earlier part of the same call did.
Then(before, after) ==
    [after EXCEPT !.constructs = before.constructs + @,
                  !.resets = before.resets + @,
                  !.fetches = before.fetches + @,
                  !.fetched = IF after.fetches > 0 THEN @ ELSE before.fetched,
                  !.samples = before.samples \o @,
                  !.raises = before.raises \o @,
                  !.cleanups = before.cleanups \o @]

\* The loop of do_command over command.items(), from item i on; o.ret.map is
\* the result map so far.
RECURSIVE do_command_loop(_, _, _, _)
do_command_loop(o, command, i, hw) ==
    IF i > Len(command)
    THEN o
    ELSE IF command[i].name # "tare"
    THEN do_command_loop(o, command, i + 1, hw)
    ELSE IF Len(command[i].args) # 0
    THEN \* tare() takes no argument: the call itself raises
         [o EXCEPT !.exc = TypeError, !.ret = NoReturn]
    ELSE LET t == Then(o, tare(o.self, hw))
         IN  IF t.exc # NoExc
             THEN t
             ELSE do_command_loop(
                      [t EXCEPT !.ret = [o.ret EXCEPT !.map[command[i].name] =
                                            Number(tare_kg(t.self.tare_offset))]],
                      command, i + 1, hw)

\* Mutant of do_command: the result holds the handled commands only.
do_command_drops_unknown(s, command, hw) ==
    LET keys == {command[i].name : i \in 1..Len(command)} \cap {"tare"}
        result == [kind |-> "result", map |-> [key \in keys |-> False]]
    IN  do_command_loop(Out(s, NoExc, result), command, 1, hw)

\* do_command(command): command is the sequence of the map's items, each
\* [name, args], in the map's order.
do_command(s, command, hw) ==
    LET keys == {command[i].name : i \in 1..Len(command)}
        result == [kind |-> "result", map |-> [key \in keys |-> False]]
    IN  do_command_loop(Out(s, NoExc, result), command, 1, hw)

\* The messages of the exceptions validate_config raises.
GainMessage == "Gain must be a valid number."
DoutPinMessage == "Data Out pin must be a valid number."
SckPinMessage == "Clock pin must be a valid number."
NumberOfReadingsMessage == "Number of readings must be a valid number."
TareOffsetMessage == "Tare offset must be a valid number."

\* A protobuf Value of config.attributes.fields: a number, or a value of
\* another kind (the tests use a string).
NumberValue(v) == [kind |-> "number_value", number_value |-> v]
StringValue == [kind |-> "string_value"]

\* value.HasField("number_value")
HasField(value, name) == value.kind = name

\* Mutant of validate_config: tare_offset is not looked at.
validate_config_skips_tare_offset(fields) ==
    LET malformed(key) ==
            key \in DOMAIN fields /\ ~HasField(fields[key], "number_value")
    IN  IF malformed("gain") THEN [exc |-> GainMessage, ret |-> NoReturn]
        ELSE IF malformed("doutPin") THEN [exc |-> DoutPinMessage, ret |-> NoReturn]
        ELSE IF malformed("sckPin") THEN [exc |-> SckPinMessage, ret |-> NoReturn]
        ELSE IF malformed("numberOfReadings")
        THEN [exc |-> NumberOfReadingsMessage, ret |-> NoReturn]
        ELSE [exc |-> NoExc, ret |-> <<>>]

\* validate_config(config): fields is config.attributes.fields. The five keys
\* are tested in the order of the code and the first one that is present
\* without a number value raises; nothing else is tested.
validate_config(fields) ==
    LET malformed(key) ==
            key \in DOMAIN fields /\ ~HasField(fields[key], "number_value")
    IN  IF malformed("gain") THEN [exc |-> GainMessage, ret |-> NoReturn]
        ELSE IF malformed("doutPin") THEN [exc |-> DoutPinMessage, ret |-> NoReturn]
        ELSE IF malformed("sckPin") THEN [exc |-> SckPinMessage, ret |-> NoReturn]
        ELSE IF malformed("numberOfReadings")
        THEN [exc |-> NumberOfReadingsMessage, ret |-> NoReturn]
        ELSE IF malformed("tare_offset")
        THEN [exc |-> TareOffsetMessage, ret |-> NoReturn]
        ELSE [exc |-> NoExc, ret |-> <<>>]

\* attrs.get(key, default)
Attr(attrs, key, default) ==
    IF key \in DOMAIN attrs THEN attrs[key] ELSE default

\* Mutant of reconfigure: the attributes are stored once the handle is there.
reconfigure_commits_last(s, attrs, hw) ==
    LET s1 == [s EXCEPT
                 !.gain = Attr(attrs, "gain", DefaultGain),
                 !.doutPin = Attr(attrs, "doutPin", DefaultDoutPin),
                 !.sckPin = Attr(attrs, "sckPin", DefaultSckPin),
                 !.numberOfReadings =
                     Attr(attrs, "numberOfReadings", DefaultNumberOfReadings),
                 !.tare_offset =
                     FromInt(Attr(attrs, "tare_offset", DefaultTareOffset))]
    IN  IF s1.hx711 = Unset \/ s1.hx711 = None
        THEN LET o == get_hx711([s1 EXCEPT !.hx711 = None], hw)
             IN  IF o.exc # NoExc
                 THEN [o EXCEPT !.self = [s EXCEPT !.hx711 = None]]
                 ELSE [o EXCEPT !.ret = None]
        ELSE Out(s1, NoExc, None)

\* Mutant of reconfigure: the attributes are stored and no handle is made.
reconfigure_lazy(s, attrs, hw) ==
    LET s1 == [s EXCEPT
                 !.gain = Attr(attrs, "gain", DefaultGain),
                 !.doutPin = Attr(attrs, "doutPin", DefaultDoutPin),
                 !.sckPin = Attr(attrs, "sckPin", DefaultSckPin),
                 !.numberOfReadings =
                     Attr(attrs, "numberOfReadings", DefaultNumberOfReadings),
                 !.tare_offset =
                     FromInt(Attr(attrs, "tare_offset", DefaultTareOffset)),
                 !.hx711 = IF @ = Unset THEN None ELSE @]
    IN  Out(s1, NoExc, None)

\* Mutant of reconfigure: tare_offset is kept when the configuration has none.
reconfigure_keeps_tare_offset(s, attrs, hw) ==
    LET s1 == [s EXCEPT
                 !.gain = Attr(attrs, "gain", DefaultGain),
                 !.doutPin = Attr(attrs, "doutPin", DefaultDoutPin),
                 !.sckPin = Attr(attrs, "sckPin", DefaultSckPin),
                 !.numberOfReadings =
                     Attr(attrs, "numberOfReadings", DefaultNumberOfReadings),
                 !.tare_offset =
                     IF "tare_offset" \in DOMAIN attrs
                     THEN FromInt(attrs["tare_offset"])
                     ELSE s.tare_offset]
    IN  IF s1.hx711 = Unset \/ s1.hx711 = None
        THEN LET o == get_hx711([s1 EXCEPT !.hx711 = None], hw)
             IN  IF o.exc # NoExc THEN o ELSE [o EXCEPT !.ret = None]
        ELSE Out(s1, NoExc, None)

\* reconfigure(config, dependencies): attrs is struct_to_dict(config.attributes).
reconfigure(s, attrs, hw) ==
    LET s1 == [s EXCEPT
                 !.gain = Attr(attrs, "gain", DefaultGain),
                 !.doutPin = Attr(attrs, "doutPin", DefaultDoutPin),
                 !.sckPin = Attr(attrs, "sckPin", DefaultSckPin),
                 !.numberOfReadings =
                     Attr(attrs, "numberOfReadings", DefaultNumberOfReadings),
                 !.tare_offset =
                     FromInt(Attr(attrs, "tare_offset", DefaultTareOffset))]
    IN  IF s1.hx711 = Unset \/ s1.hx711 = None
        THEN LET o == get_hx711([s1 EXCEPT !.hx711 = None], hw)
             IN  IF o.exc # NoExc THEN o ELSE [o EXCEPT !.ret = None]
        ELSE Out(s1, NoExc, None)

\* ----------------------------------------------------------------- inputs

\* The configurations the host hands to new() and reconfigure(): each
\* attribute is absent or holds a number (validate_config has accepted it).
Keys == {"gain", "doutPin", "sckPin", "numberOfReadings", "tare_offset"}

AttrValues(key) ==
    CASE key = "gain" -> {128}
      [] key = "doutPin" -> {7}
      [] key = "sckPin" -> {8}
      [] key = "numberOfReadings" -> 0..MaxReadings
      [] key = "tare_offset" -> {100}

\* Configurations that set no attribute, one attribute or all five.
Configs ==
    UNION {{attrs \in [K -> UNION {AttrValues(k) : k \in K}] :
               \A k \in K : attrs[k] \in AttrValues(k)} :
           K \in {L \in SUBSET Keys : Cardinality(L) <= 1 \/ L = Keys}}

\* The numbers the tests hand to validate_config: for each key the value of
\* the valid configuration first, then a value outside the range the
\* hardware supports.
FieldNumbers(key) ==
    CASE key = "gain" -> <<128, 65>>
      [] key = "doutPin" -> <<7, 999>>
      [] key = "sckPin" -> <<8, 999>>
      [] key = "numberOfReadings" -> <<5, 0>>
      [] key = "tare_offset" -> <<100, 0 - 100>>

FieldValues(key) ==
    {NumberValue(FieldNumbers(key)[i]) : i \in 1..2} \cup {StringValue}

\* The fields handed to validate_config: no key, one key with any of its
\* values, or all five keys with the valid numbers but for at most one string.
ConfigFields ==
    UNION {{fields \in [K -> UNION {FieldValues(k) : k \in K}] :
               /\ \A k \in K : fields[k] \in FieldValues(k)
               /\ LET odd == {k \in K : fields[k] # NumberValue(FieldNumbers(k)[1])}
                  IN  \/ Cardinality(K) <= 1
                      \/ /\ Cardinality(odd) <= 1
                         /\ \A k \in odd : fields[k] = StringValue} :
           K \in {L \in SUBSET Keys : Cardinality(L) <= 1 \/ L = Keys}}

\* The command maps handed to do_command(), as the sequence of their items.
Items ==
    {[name |-> "tare", args |-> <<>>], [name |-> "tare", args |-> <<1>>],
     [name |-> "x", args |-> <<>>]}

Commands ==
    {c \in UNION {[1..n -> Items] : n \in 0..2} :
        /\ \A i, j \in 1..Len(c) : c[i].name = c[j].name => i = j
        /\ Len(c) = 2 => \A i \in 1..2 : c[i].args = <<>>}

\* What the hardware does when a handle is acquired: the constructor and
\* reset() succeed, the constructor raises, or reset() raises.
WorkingInit == [construct |-> NoExc, reset |-> NoExc]

InitOutcomes ==
    {WorkingInit}
    \cup {[construct |-> ConstructError, reset |-> NoExc]}
    \cup {[construct |-> NoExc, reset |-> ResetError]}

\* The constructor and reset() run only in a call that finds no handle stored.
InitOutcomesFor(h) == IF h = None THEN InitOutcomes ELSE {WorkingInit}

\* What the hardware does during one call that finds the handle h stored and
\* asks for `times` samples.
Hardware(h, times) ==
    {[construct |-> i.construct, reset |-> i.reset, fetch |-> f] :
        i \in InitOutcomesFor(h), f \in FetchOutcomes(times)}

\* do_command reaches the hardware only through tare(), which it calls for a
\* "tare" item without arguments.
CommandHardware(command, h, times) ==
    IF \E i \in 1..Len(command) : command[i] = [name |-> "tare", args |-> <<>>]
    THEN Hardware(h, times)
    ELSE {[construct |-> WorkingInit.construct, reset |-> WorkingInit.reset,
           fetch |-> [kind |-> "invalid", exc |-> NoExc, data |-> <<>>]]}

\* ------------------------------------------------------------------ state

VARIABLES
    gain,              \* self.gain
    doutPin,           \* self.doutPin
    sckPin,            \* self.sckPin
    numberOfReadings,  \* self.numberOfReadings
    tare_offset,       \* self.tare_offset (raw units)
    hx711,             \* self.hx711: None or the handle
    last,              \* the last call: its name, argument, outcome and effects
    baseline,          \* history: the samples the last successful tare fetched,
                       \* if one ran since the last reconfigure
    tasks,             \* the coroutines the event loop has started and not
                       \* finished: where each one stands
    bmp                \* the BmpSensor instance and its last call, if the
                       \* host has made one

vars ==
    <<gain, doutPin, sckPin, numberOfReadings, tare_offset, hx711, last,
      baseline, tasks, bmp>>

NoBaseline == [set |-> FALSE, samples |-> <<>>]

\* The host has made no BmpSensor.
NoBmpSensor == [kind |-> "None"]

\* The history after the call op with result o.
Baseline(op, o, old) ==
    IF op \in {"new", "reconfigure"}
    THEN NoBaseline
    ELSE IF op \in {"tare", "do_command"} /\ o.exc = NoExc /\ o.fetched = "data"
    THEN [set |-> TRUE, samples |-> o.samples]
    ELSE old

\* The object, as the methods see it.
Self ==
    [gain |-> gain, doutPin |-> doutPin, sckPin |-> sckPin,
     numberOfReadings |-> numberOfReadings, tare_offset |-> tare_offset,
     hx711 |-> hx711]

\* The object right after cls(name): reconfigure has set nothing yet.
Fresh ==
    [gain |-> 0, doutPin |-> 0, sckPin |-> 0, numberOfReadings |-> 0,
     tare_offset |-> FromInt(0), hx711 |-> Unset]

\* The call named op with argument arg ran with result o.
Called(op, arg, o) ==
    [op |-> op, arg |-> arg, exc |-> o.exc, ret |-> o.ret,
     constructs |-> o.constructs, resets |-> o.resets, fetches |-> o.fetches,
     fetched |-> o.fetched, samples |-> o.samples, raises |-> o.raises,
     cleanups |-> o.cleanups]

\* The Loadcell is the object o.self, and `last` tells of the call.
Holds(op, arg, o) ==
    /\ gain = o.self.gain
    /\ doutPin = o.self.doutPin
    /\ sckPin = o.self.sckPin
    /\ numberOfReadings = o.self.numberOfReadings
    /\ tare_offset = o.self.tare_offset
    /\ hx711 = o.self.hx711
    /\ last = Called(op, arg, o)
    /\ baseline = Baseline(op, o, NoBaseline)
    /\ tasks = <<>>

\* The state is the object o.self, and `last` tells of the call.
Is(op, arg, o) == Holds(op, arg, o) /\ bmp = NoBmpSensor

\* The call named op ran on the object and ended with result o.
Sets(op, arg, o) ==
    /\ gain' = o.self.gain
    /\ doutPin' = o.self.doutPin
    /\ sckPin' = o.self.sckPin
    /\ numberOfReadings' = o.self.numberOfReadings
    /\ tare_offset' = o.self.tare_offset
    /\ hx711' = o.self.hx711
    /\ last' = Called(op, arg, o)
    /\ baseline' = Baseline(op, o, baseline)
    /\ UNCHANGED bmp

\* A call the host awaits by itself: no other coroutine is started.
Becomes(op, arg, o) == Sets(op, arg, o) /\ UNCHANGED tasks

\* new(config, dependencies): cls(name), then reconfigure; the host has an
\* instance only when reconfigure returned.
Init ==
    \E attrs \in Configs :
        LET o == reconfigure(Fresh, attrs, WorkingInit)
        IN  o.exc = NoExc /\ Is("new", attrs, o)

\* Mutant of ValidateConfig: a rejected configuration discards the handle.
ValidateConfigDiscardsHandle ==
    \E fields \in ConfigFields :
        LET r == validate_config(fields)
            s == IF r.exc # NoExc THEN [Self EXCEPT !.hx711 = None] ELSE Self
        IN  Becomes("validate_config", fields, Out(s, r.exc, r.ret))

\* validate_config is a classmethod: it reads its argument only.
ValidateConfig ==
    \E fields \in ConfigFields :
        LET r == validate_config(fields)
        IN  Becomes("validate_config", fields, Out(Self, r.exc, r.ret))

Reconfigure ==
    \E attrs \in Configs, hw \in InitOutcomesFor(hx711) :
        Becomes("reconfigure", attrs, reconfigure(Self, attrs, hw))

GetHx711 ==
    \E hw \in InitOutcomesFor(hx711) :
        Becomes("get_hx711", None, get_hx711(Self, hw))

GetReadings ==
    \E hw \in Hardware(hx711, numberOfReadings) :
        Becomes("get_readings", None, get_readings(Self, hw))

Tare ==
    \E hw \in Hardware(hx711, numberOfReadings) :
        Becomes("tare", None, tare(Self, hw))

DoCommand ==
    \E command \in Commands :
      \E hw \in CommandHardware(command, hx711, numberOfReadings) :
        Becomes("do_command", command, do_command(Self, command, hw))

Close ==
    \E gpio \in GpioErrors \cup {NoExc} :
        Becomes("close", None, close(Self, gpio))

Next ==
    \/ ValidateConfig
    \/ Reconfigure
    \/ GetHx711
    \/ GetReadings
    \/ Tare
    \/ DoCommand
    \/ Close

Spec == Init /\ [][Next]_vars

\* ------------------------------------------------------- concurrent tasks

\* The coroutines the host starts as tasks on one instance.
TaskNames == {"get_readings", "tare", "do_command"}

\* The command of the do_command task.
TareCommand == <<[name |-> "tare", args |-> <<>>]>>

TaskArg(name) == IF name = "do_command" THEN TareCommand ELSE None

\* Mutant of SuspensionPoints: the fetch is awaited, so that the event loop
\* can run another task while the device answers.
SuspensionPointsAwaitedFetch(name) == {"get_raw_data"}

\* The places inside a coroutine where it hands control back to the event
\* loop. get_readings and tare hold no await (get_hx711 and get_raw_data
\* are plain calls); do_command awaits tare(), a coroutine that never
\* suspends, so the await returns without the loop running.
SuspensionPoints(name) == {}

\* The body of the coroutine.
RunCoroutine(name, s, hw) ==
    CASE name = "get_readings" -> get_readings(s, hw)
      [] name = "tare" -> tare(s, hw)
      [] name = "do_command" -> do_command(s, TareCommand, hw)

\* The host starts some of the three coroutines as tasks at once.
Gather ==
    /\ tasks = <<>>
    /\ \E T \in SUBSET TaskNames \ {{}} : tasks' = [name \in T |-> "start"]
    /\ UNCHANGED <<gain, doutPin, sckPin, numberOfReadings, tare_offset, hx711,
                   last, baseline, bmp>>

\* The event loop runs one of the started tasks until it suspends or ends.
RunTask ==
    \E name \in DOMAIN tasks :
        IF tasks[name] = "start" /\ "get_raw_data" \in SuspensionPoints(name)
        THEN /\ tasks' = [tasks EXCEPT ![name] = "get_raw_data"]
             /\ UNCHANGED <<gain, doutPin, sckPin, numberOfReadings,
                            tare_offset, hx711, last, baseline, bmp>>
        ELSE /\ \E hw \in Hardware(hx711, numberOfReadings) :
                    Sets(name, TaskArg(name), RunCoroutine(name, Self, hw))
             /\ tasks' = [other \in DOMAIN tasks \ {name} |-> tasks[other]]

NextTasks ==
    \/ Gather
    \/ RunTask

SpecTasks == Init /\ [][NextTasks]_vars

\* -------------------------------------------------------------- BmpSensor

DefaultSeaLevelPressure == 101325

\* The BMP085.BMP085(busnum=1) object.
BMP085 == [kind |-> "BMP085"]

\* Exceptions of the I2C bus and of the BMP085 library.
I2CError == "I2C bus not available"
SensorInitError == "BMP085 not found"
SensorReadError == "I2C read failed"
AttributeError == "AttributeError"

\* What the bus and the sensor do during reconfigure.
BmpInitOutcomes ==
    {[i2c |-> e, sensor |-> NoExc] : e \in {NoExc, I2CError}}
    \cup {[i2c |-> NoExc, sensor |-> SensorInitError]}

\* What one read of the sensor does: it raises or hands back a value.
ReadOutcomes(values) ==
    {[exc |-> SensorReadError, val |-> 0]}
    \cup {[exc |-> NoExc, val |-> v] : v \in values}

\* What the sensor does during one call: read_temperature(), read_pressure()
\* and read_altitude(sea_level_pressure).
BmpReads ==
    [temperature : ReadOutcomes({20}),
     pressure : ReadOutcomes({100000, 101325}),
     altitude : ReadOutcomes({0, 110})]

\* A BmpSensor object before reconfigure: it has no attribute yet.
BmpFresh ==
    [sensor |-> Unset, sea_level_pressure |-> 0, pressure_offset |-> 0,
     altitude_offset |-> 0]

\* A call's result: the object, what it raised, what it returned.
BmpOut(s, e, r) == [self |-> s, exc |-> e, ret |-> r]

\* Mutant of BmpSensor_reconfigure: the offsets of an earlier tare are kept.
BmpSensor_reconfigure_keeps_offsets(s, attrs, hw) ==
    IF hw.i2c # NoExc
    THEN BmpOut([s EXCEPT !.sensor = None], hw.i2c, NoReturn)
    ELSE IF hw.sensor # NoExc
    THEN BmpOut([s EXCEPT !.sensor = None], hw.sensor, NoReturn)
    ELSE BmpOut([s EXCEPT
                   !.sensor = BMP085,
                   !.sea_level_pressure =
                       Attr(attrs, "sea_level_pressure", DefaultSeaLevelPressure)],
                NoExc, None)

\* BmpSensor.reconfigure(config, dependencies); the except-branch stores
\* None in sensor and re-raises.
BmpSensor_reconfigure(s, attrs, hw) ==
    IF hw.i2c # NoExc
    THEN BmpOut([s EXCEPT !.sensor = None], hw.i2c, NoReturn)
    ELSE IF hw.sensor # NoExc
    THEN BmpOut([s EXCEPT !.sensor = None], hw.sensor, NoReturn)
    ELSE BmpOut([s EXCEPT
                   !.sensor = BMP085,
                   !.sea_level_pressure =
                       Attr(attrs, "sea_level_pressure", DefaultSeaLevelPressure),
                   !.pressure_offset = 0,
                   !.altitude_offset = 0],
                NoExc, None)

\* The map BmpSensor.get_readings returns.
BmpReadings(s, temperature, raw_pressure, raw_altitude) ==
    ("temperature - C" :> temperature)
    @@ ("pressure - Pa" :> raw_pressure - s.pressure_offset)
    @@ ("altitude - m" :> raw_altitude - s.altitude_offset)
    @@ ("sea_level_pressure - Pa" :> s.sea_level_pressure)
    @@ ("raw_pressure - Pa" :> raw_pressure)
    @@ ("raw_altitude - m" :> raw_altitude)
    @@ ("pressure_offset - Pa" :> s.pressure_offset)
    @@ ("altitude_offset - m" :> s.altitude_offset)

\* BmpSensor.get_readings(): {} without sensor and when a read raises.
BmpSensor_get_readings(s, hw) ==
    IF s.sensor = None
    THEN BmpOut(s, NoExc, <<>>)
    ELSE IF \/ hw.temperature.exc # NoExc
            \/ hw.pressure.exc # NoExc
            \/ hw.altitude.exc # NoExc
    THEN BmpOut(s, NoExc, <<>>)
    ELSE BmpOut(s, NoExc,
                BmpReadings(s, hw.temperature.val, hw.pressure.val,
                            hw.altitude.val))

\* The values of a command map: strings and numbers.
Str(text) == [kind |-> "str", val |-> text]
Num(n) == [kind |-> "number", val |-> n]

\* str.lower() on the names used.
Lower(text) ==
    CASE text = "TARE" -> "tare"
      [] text = "Reset_Tare" -> "reset_tare"
      [] OTHER -> text

\* BmpSensor.do_command(command): command.get("command", "").lower() runs
\* before the try, the commands inside it.
BmpSensor_do_command(s, command, hw) ==
    IF s.sensor = None
    THEN BmpOut(s, NoExc, ("error" :> "Sensor not initialized"))
    ELSE LET value == IF "command" \in DOMAIN command
                      THEN command["command"] ELSE Str("")
         IN  IF value.kind # "str"
             THEN BmpOut(s, AttributeError, NoReturn)
             ELSE LET command_name == Lower(value.val)
                  IN  IF command_name = "tare"
                      THEN IF hw.pressure.exc # NoExc
                           THEN BmpOut(s, NoExc, ("error" :> hw.pressure.exc))
                           ELSE LET s1 == [s EXCEPT !.pressure_offset =
                                                        hw.pressure.val]
                                IN  IF hw.altitude.exc # NoExc
                                    THEN BmpOut(s1, NoExc,
                                                ("error" :> hw.altitude.exc))
                                    ELSE BmpOut(
                                             [s1 EXCEPT !.altitude_offset =
                                                            hw.altitude.val],
                                             NoExc,
                                             ("status" :> "tare_completed")
                                             @@ ("pressure_offset" :>
                                                     hw.pressure.val)
                                             @@ ("altitude_offset" :>
                                                     hw.altitude.val)
                                             @@ ("message" :>
                                                     "Tare completed successfully"))
                      ELSE IF command_name = "reset_tare"
                      THEN BmpOut([s EXCEPT !.pressure_offset = 0,
                                            !.altitude_offset = 0],
                                  NoExc,
                                  ("status" :> "tare_reset")
                                  @@ ("message" :> "Tare reset successfully"))
                      ELSE BmpOut(s, NoExc,
                                  ("error" :> "Unknown command")
                                  @@ ("available_commands" :>
                                          <<"tare", "reset_tare">>))

\* The configurations and commands the host hands to the BmpSensor.
BmpConfigs == {<<>>, [sea_level_pressure |-> 100000]}

BmpCommands ==
    {<<>>}
    \cup {("command" :> Str(name)) : name \in {"tare", "TARE", "reset_tare", "x"}}
    \cup {("command" :> Num(1))}

\* The BmpSensor after the call op with result o.
BmpCalled(op, arg, o) ==
    [self |-> o.self,
     last |-> [op |-> op, arg |-> arg, exc |-> o.exc, ret |-> o.ret]]

\* The host has a Loadcell of the default configuration and a BmpSensor
\* that new() returned.
InitBmp ==
    /\ Holds("new", <<>>, reconfigure(Fresh, <<>>, WorkingInit))
    /\ \E attrs \in BmpConfigs :
           bmp = BmpCalled("new", attrs,
                           BmpSensor_reconfigure(
                               BmpFresh, attrs, [i2c |-> NoExc, sensor |-> NoExc]))

LoadcellUnchanged ==
    UNCHANGED <<gain, doutPin, sckPin, numberOfReadings, tare_offset, hx711,
                last, baseline, tasks>>

BmpReconfigure ==
    /\ \E attrs \in BmpConfigs, hw \in BmpInitOutcomes :
           bmp' = BmpCalled("reconfigure", attrs,
                            BmpSensor_reconfigure(bmp.self, attrs, hw))
    /\ LoadcellUnchanged

BmpGetReadings ==
    /\ \E hw \in BmpReads :
           bmp' = BmpCalled("get_readings", None,
                            BmpSensor_get_readings(bmp.self, hw))
    /\ LoadcellUnchanged

BmpDoCommand ==
    /\ \E command \in BmpCommands, hw \in BmpReads :
           bmp' = BmpCalled("do_command", command,
                            BmpSensor_do_command(bmp.self, command, hw))
    /\ LoadcellUnchanged

NextBmp ==
    \/ BmpReconfigure
    \/ BmpGetReadings
    \/ BmpDoCommand

SpecBmp == InitBmp /\ [][NextBmp]_vars

\* ----------------------------------------------------------------- claims

\* The exceptions the collaborators in `by` raised during the last call.
RaisedBy(by) ==
    {last.raises[i].exc : i \in {j \in DOMAIN last.raises : last.raises[j].by \in by}}

\* The last call was op and returned.
Returned(op) == last.op = op /\ last.exc = NoExc

\* C1: when get_raw_data raises during get_readings() or tare(), the stored
\* handle is None when the call ends and the exception that reaches the
\* caller is the one the fetch raised.
C1_FetchFailureInvalidates ==
    last.op \in {"get_readings", "tare"} =>
        \A e \in RaisedBy({"get_raw_data"}) : hx711 = None /\ last.exc = e

\* C1 witness: a get_readings() that found a handle stored (it constructed
\* none) and whose fetch timed out.
C1_Witness ==
    /\ last.op = "get_readings"
    /\ last.constructs = 0
    /\ last.raises = <<[by |-> "get_raw_data", exc |-> TimeoutError]>>
    /\ last.exc = TimeoutError
    /\ hx711 = None

\* C2: a tare() that fails leaves tare_offset as it was; a tare() changes
\* tare_offset only when the fetch handed back samples and nothing raised.
C2_FailedTareKeepsOffset ==
    [][last'.op = "tare" =>
          /\ last'.exc # NoExc => tare_offset' = tare_offset
          /\ tare_offset' # tare_offset =>
                 last'.exc = NoExc /\ last'.fetched = "data" /\ last'.raises = <<>>
      ]_vars

\* C2 witness: a tare() whose fetch raised, after an earlier tare() had set
\* the offset to 245900/3.
C2_Witness ==
    /\ last.op = "tare"
    /\ last.exc = ReadError
    /\ baseline = [set |-> TRUE, samples |-> <<81900, 81900, 82100>>]
    /\ tare_offset = [num |-> 245900, den |-> 3]

\* C3: a get_readings() that returns has measures[i] = (S[i] - t) / 8200 for
\* each of the n >= 1 samples S it fetched and the stored offset t, and
\* weight * 8200 * n = sum(S) - n * t.
C3_ReadingFormula ==
    Returned("get_readings") =>
        LET S == last.samples
            n == Len(S)
        IN  /\ n >= 1
            /\ Len(last.ret.measures) = n
            /\ \A i \in 1..n :
                   RMulInt(last.ret.measures[i], CountsPerKg)
                       = RSub(FromInt(S[i]), tare_offset)
            /\ RMulInt(last.ret.weight, CountsPerKg * n)
                   = RSub(FromInt(SumInt(S)), RMulInt(tare_offset, n))

\* C3 witness: samples with mean 82000 under the offset 0 weigh 10 kg.
C3_Witness ==
    /\ Returned("get_readings")
    /\ last.samples = <<81900, 82100>>
    /\ tare_offset = FromInt(0)
    /\ last.ret.weight = FromInt(10)

\* C4: from a successful tare() until the next tare or reconfigure,
\* tare_offset is the mean of the samples B that tare fetched, and every
\* get_readings() that returns has subtracted that mean:
\* measures[i] * 8200 * |B| = S[i] * |B| - sum(B).
C4_TareSetsBaseline ==
    baseline.set =>
        LET B == baseline.samples
        IN  /\ Len(B) >= 1
            /\ RMulInt(tare_offset, Len(B)) = FromInt(SumInt(B))
            /\ Returned("get_readings") =>
                   \A i \in 1..Len(last.samples) :
                       RMulInt(last.ret.measures[i], CountsPerKg * Len(B))
                           = FromInt(last.samples[i] * Len(B) - SumInt(B))

\* C4 witness: a reading taken under the baseline <<81900, 82100, 82100>>,
\* whose mean is no integer.
C4_Witness ==
    /\ Returned("get_readings")
    /\ baseline = [set |-> TRUE, samples |-> <<81900, 82100, 82100>>]
    /\ tare_offset = [num |-> 246100, den |-> 3]
    /\ last.samples = <<81900, 81900, 81900>>

\* C5: a get_readings() that follows a successful tare() with no tare or
\* reconfigure in between, and fetches samples with the mean of the samples
\* the tare fetched, reports weight 0.
C5_TareZeroing ==
    (Returned("get_readings") /\ baseline.set
       /\ SumInt(last.samples) * Len(baseline.samples)
              = SumInt(baseline.samples) * Len(last.samples))
        => last.ret.weight = FromInt(0)

\* C5 witness: the reading fetched other samples than the tare did, with the
\* same mean.
C5_Witness ==
    /\ Returned("get_readings")
    /\ baseline = [set |-> TRUE, samples |-> <<81900, 82100, 82100>>]
    /\ last.samples = <<82100, 82100, 81900>>
    /\ last.ret.weight = FromInt(0)

\* C6: a get_readings() that follows a successful tare() with no tare or
\* reconfigure in between reports (M2 - M1) / 8200, M1 the mean of the
\* n1 samples B of the tare and M2 the mean of its own n2 samples S:
\* weight * 8200 * n1 * n2 = sum(S) * n1 - sum(B) * n2.
C6_TareDelta ==
    (Returned("get_readings") /\ baseline.set) =>
        LET B == baseline.samples
            S == last.samples
        IN  RMulInt(last.ret.weight, CountsPerKg * Len(B) * Len(S))
                = FromInt(SumInt(S) * Len(B) - SumInt(B) * Len(S))

\* C6 witness: tare at mean 81900, reading at mean 82100: 200 / 8200 kg.
C6_Witness ==
    /\ Returned("get_readings")
    /\ baseline = [set |-> TRUE, samples |-> <<81900, 81900>>]
    /\ last.samples = <<82100, 82100>>
    /\ last.ret.weight = [num |-> 1, den |-> 41]

\* The calls that acquire the handle through get_hx711().
Acquirers == {"get_hx711", "get_readings", "tare", "do_command", "reconfigure"}

\* C7: a call made while a handle is stored constructs nothing and resets
\* nothing, the handle it leaves stored is the one it found and get_hx711()
\* returns that one; a call that finds no handle and leaves one stored has
\* called the constructor once and reset() once.
C7_AcquireIdempotent ==
    [][/\ (hx711 # None /\ last'.op \in Acquirers) =>
              /\ last'.constructs = 0
              /\ last'.resets = 0
              /\ hx711' # None => hx711' = hx711
              /\ last'.op = "get_hx711" => last'.ret = hx711
       /\ (hx711 = None /\ hx711' # None) =>
              /\ last'.constructs = 1
              /\ last'.resets = 1
              /\ last'.op = "get_hx711" => last'.ret = hx711'
      ]_vars

\* C7 witness: get_hx711() returned the stored handle without constructing.
C7_Witness ==
    /\ Returned("get_hx711")
    /\ last.constructs = 0
    /\ last.resets = 0
    /\ hx711 # None
    /\ last.ret = hx711

\* C8: when the constructor or reset() raises inside get_hx711(), the stored
\* handle is None when the call ends and that exception reaches the caller; a
\* stored handle is always one that was reset.
C8_InitFailureClearsHandle ==
    /\ \A e \in RaisedBy({"HX711", "reset"}) : hx711 = None /\ last.exc = e
    /\ hx711 # None => hx711.is_reset

\* C8 witness: get_hx711() constructed a handle whose reset() raised.
C8_Witness ==
    /\ last.op = "get_hx711"
    /\ last.constructs = 1
    /\ last.raises = <<[by |-> "reset", exc |-> ResetError]>>
    /\ last.exc = ResetError
    /\ hx711 = None

\* The hardware worked during the last call: no collaborator raised and the
\* fetch handed back the readings asked for.
HardwareWorked == last.raises = <<>> /\ last.fetched = "data"

\* C9: a get_readings() or tare() during which the hardware works returns
\* normally, whatever calls came before; when the call before it was a failed
\* get_readings() or tare(), it constructs once and resets once.
C9_Recovery ==
    [][(last'.op \in {"get_readings", "tare"} /\ HardwareWorked') =>
            /\ last'.exc = NoExc
            /\ (last.op \in {"get_readings", "tare"} /\ last.exc # NoExc) =>
                   last'.constructs = 1 /\ last'.resets = 1
      ]_vars

\* C10: close() never raises, also when GPIO.cleanup raises, and leaves the
\* stored handle None.
C10_CloseNeverRaises ==
    last.op = "close" => last.exc = NoExc /\ hx711 = None

\* C10 witness: a close() during which GPIO.cleanup raised.
C10_Witness ==
    /\ last.op = "close"
    /\ last.raises = <<[by |-> "GPIO.cleanup", exc |-> PermissionError]>>
    /\ last.exc = NoExc
    /\ hx711 = None

\* C11: close() calls GPIO.cleanup once, with the pair (doutPin, sckPin) of
\* the stored configuration; it makes no call without argument and names no
\* other pin.
C11_CleanupScopedToPins ==
    last.op = "close" => last.cleanups = <<<<doutPin, sckPin>>>>

\* C11 witness: a close() under a configuration with doutPin 7, where no
\* handle is stored afterwards.
C11_Witness ==
    /\ last.op = "close"
    /\ doutPin = 7
    /\ sckPin = DefaultSckPin
    /\ last.cleanups = <<<<7, DefaultSckPin>>>>
    /\ hx711 = None

\* The names of the command map handed to the last do_command().
CommandKeys(command) == {command[i].name : i \in 1..Len(command)}

\* C12: a do_command() that returns has one entry per name of its command,
\* False for every name but "tare" and the new offset in kg for "tare",
\* whatever the other names and their order; it never changes the
\* configuration, and with no "tare" among the names it changes neither the
\* handle nor tare_offset and touches no collaborator.
C12_CommandDispatch ==
    [][(last'.op = "do_command" /\ last'.exc = NoExc) =>
          LET keys == CommandKeys(last'.arg)
              map == last'.ret.map
          IN  /\ DOMAIN map = keys
              /\ \A k \in keys \ {"tare"} : map[k] = False
              /\ "tare" \in keys =>
                     /\ map["tare"].kind = "number"
                     /\ RMulInt(map["tare"].val, CountsPerKg * Len(last'.samples))
                            = FromInt(SumInt(last'.samples))
              /\ UNCHANGED <<gain, doutPin, sckPin, numberOfReadings>>
              /\ "tare" \notin keys =>
                     /\ UNCHANGED <<hx711, tare_offset, baseline>>
                     /\ last'.constructs = 0 /\ last'.resets = 0
                     /\ last'.fetches = 0 /\ last'.cleanups = <<>>
      ]_vars

\* C12 witness: {"tare": [], "x": []} answered with both names.
C12_Witness ==
    /\ Returned("do_command")
    /\ last.arg = <<[name |-> "tare", args |-> <<>>], [name |-> "x", args |-> <<>>]>>
    /\ DOMAIN last.ret.map = {"tare", "x"}
    /\ last.ret.map["x"] = False
    /\ last.ret.map["tare"] = Number([num |-> 10, den |-> 1])

XThenTare == <<[name |-> "x", args |-> <<>>], [name |-> "tare", args |-> <<>>]>>

\* C13: do_command({"x": [], "tare": []}) that returns has fetched once, maps
\* "x" to False and "tare" to mean(samples) / 8200, which is the stored
\* tare_offset / 8200; the get_readings() that returns next reports the same
\* value as its tare_offset.
C13_TareCommandValue ==
    [][(Returned("do_command") /\ last.arg = XThenTare) =>
          /\ last.fetches = 1
          /\ last.ret.map["x"] = False
          /\ RMulInt(last.ret.map["tare"].val, CountsPerKg * Len(last.samples))
                 = FromInt(SumInt(last.samples))
          /\ RMulInt(last.ret.map["tare"].val, CountsPerKg) = tare_offset
          /\ (last'.op = "get_readings" /\ last'.exc = NoExc) =>
                 last'.ret.tare_offset = last.ret.map["tare"].val
      ]_vars

\* C13 witness: the command tared on samples with mean 246100/3.
C13_Witness ==
    /\ Returned("do_command")
    /\ last.arg = XThenTare
    /\ last.samples = <<81900, 82100, 82100>>
    /\ last.ret.map["tare"] = Number([num |-> 2461, den |-> 246])

\* The ranges the configuration's numbers are valid in: the gains the
\* amplifier supports, the pins of the host's header, one to 99 samples. No
\* range is stated here for tare_offset.
InRange(key, v) ==
    CASE key = "gain" -> v \in {32, 64, 128}
      [] key \in {"doutPin", "sckPin"} -> v \in 1..40
      [] key = "numberOfReadings" -> v \in 1..99
      [] OTHER -> TRUE

ValidationMessages ==
    {GainMessage, DoutPinMessage, SckPinMessage, NumberOfReadingsMessage,
     TareOffsetMessage}

\* C14: validate_config raises when a field holds a number out of its range,
\* and so does reconfigure.
C14_RangeValidated ==
    /\ last.op = "validate_config" =>
           \A k \in DOMAIN last.arg :
               (/\ HasField(last.arg[k], "number_value")
                /\ ~InRange(k, last.arg[k].number_value)) => last.exc # NoExc
    /\ last.op = "reconfigure" =>
           \A k \in DOMAIN last.arg :
               ~InRange(k, last.arg[k]) => last.exc \in ValidationMessages

Malformed == {k \in DOMAIN last.arg : last.arg[k].kind # "number_value"}

\* C16: when sckPin alone is malformed, and when numberOfReadings alone is,
\* validate_config raises with the message 'Gain must be a valid number'.
C16_GainMessageForOthers ==
    (/\ last.op = "validate_config"
     /\ Malformed \in {{"sckPin"}, {"numberOfReadings"}}) =>
        last.exc = GainMessage

\* C17: after a reconfigure() that returns, each attribute is the value the
\* configuration gives, or its default when the configuration has not the
\* key, whatever the attributes were before.
C17_ReconfigureReplaces ==
    [][(last'.op = "reconfigure" /\ last'.exc = NoExc) =>
          LET attrs == last'.arg
              given(key) == key \in DOMAIN attrs
          IN  /\ gain' = IF given("gain") THEN attrs["gain"] ELSE 64
              /\ doutPin' = IF given("doutPin") THEN attrs["doutPin"] ELSE 5
              /\ sckPin' = IF given("sckPin") THEN attrs["sckPin"] ELSE 6
              /\ numberOfReadings' =
                     IF given("numberOfReadings")
                     THEN attrs["numberOfReadings"] ELSE 3
              /\ tare_offset' =
                     IF given("tare_offset")
                     THEN [num |-> attrs["tare_offset"], den |-> 1]
                     ELSE [num |-> 0, den |-> 1]
      ]_vars

\* C17 witness: a reconfigure() that gives doutPin only returned, and the
\* other attributes are the defaults.
C17_Witness ==
    /\ Returned("reconfigure")
    /\ DOMAIN last.arg = {"doutPin"}
    /\ doutPin = 7
    /\ <<gain, sckPin, numberOfReadings>> = <<64, 6, 3>>
    /\ tare_offset = [num |-> 0, den |-> 1]

ReadingKeys ==
    {"doutPin", "sckPin", "gain", "numberOfReadings", "tare_offset",
     "measures", "weight"}

\* C18: get_readings() raises and returns nothing, or returns a map with
\* exactly the seven keys, where the first four are the configuration stored
\* when it was called, tare_offset is the stored offset / 8200 and measures
\* has one element per sample fetched, numberOfReadings of them.
C18_CompleteReading ==
    [][last'.op = "get_readings" =>
          \/ last'.exc # NoExc /\ last'.ret = NoReturn
          \/ /\ last'.exc = NoExc
             /\ DOMAIN last'.ret \ {"kind"} = ReadingKeys
             /\ last'.ret.doutPin = doutPin
             /\ last'.ret.sckPin = sckPin
             /\ last'.ret.gain = gain
             /\ last'.ret.numberOfReadings = numberOfReadings
             /\ RMulInt(last'.ret.tare_offset, CountsPerKg) = tare_offset
             /\ Len(last'.ret.measures) = Len(last'.samples)
             /\ Len(last'.ret.measures) = numberOfReadings
      ]_vars

\* C18 witness: a returned reading under the configuration of all five keys.
C18_Witness ==
    /\ Returned("get_readings")
    /\ DOMAIN last.ret \ {"kind"} = ReadingKeys
    /\ <<last.ret.doutPin, last.ret.sckPin, last.ret.gain>> = <<7, 8, 128>>
    /\ last.ret.numberOfReadings = 2
    /\ Len(last.ret.measures) = 2
    /\ last.ret.tare_offset = [num |-> 1, den |-> 82]

\* C19: the driver holds at most one handle: a call constructs at most once,
\* and only when it found none stored; a stored handle has been reset once;
\* the handle of a call whose fetch or computation failed is not stored.
C19_OneValidHandle ==
    /\ [](hx711 # None => hx711.is_reset /\ hx711.call_count = 1)
    /\ [][/\ last'.constructs <= 1
          /\ last'.constructs = 1 => hx711 = None
          /\ (last'.fetches > 0 /\ last'.exc # NoExc) => hx711' = None
         ]_vars

\* C19 witness: a tare() found a handle reset once, its fetch raised and no
\* handle is stored.
C19_Witness ==
    /\ last.op = "tare"
    /\ last.constructs = 0
    /\ last.fetches = 1
    /\ last.exc = ReadError
    /\ hx711 = None

\* C20: a stored handle was constructed with the configured pins and gain.
C20_HandleMatchesConfig ==
    hx711 # None =>
        /\ hx711.dout_pin = doutPin
        /\ hx711.pd_sck_pin = sckPin
        /\ hx711.gain = gain

\* C21: numberOfReadings is at least 1 in every state of a driver whose
\* configuration validate_config accepts, and the device is never asked for
\* 0 samples.
C21_SampleCountPositive ==
    /\ numberOfReadings >= 1
    /\ (last.fetched = "data" /\ last.raises = <<>>) => Len(last.samples) >= 1

\* C22: when the device hands back no sample, get_readings() and tare() do
\* not divide by the number of samples: no ZeroDivisionError arises.
C22_EmptySamplesGuarded ==
    (/\ last.op \in {"get_readings", "tare"}
     /\ last.fetched = "data"
     /\ last.samples = <<>>) => last.exc # ZeroDivisionError

\* C23: validate_config, whether it returns or raises, constructs, resets and
\* discards no handle, fetches nothing, calls no GPIO primitive and leaves
\* the configuration and tare_offset as they were.
C23_ValidateConfigPure ==
    [][last'.op = "validate_config" =>
          /\ UNCHANGED <<gain, doutPin, sckPin, numberOfReadings, tare_offset,
                         hx711, baseline>>
          /\ last'.constructs = 0 /\ last'.resets = 0 /\ last'.fetches = 0
          /\ last'.cleanups = <<>> /\ last'.raises = <<>>
      ]_vars

\* C23 witness: validate_config rejected a string doutPin while a handle is
\* stored under a tared, non-default configuration.
C23_Witness ==
    /\ last.op = "validate_config"
    /\ last.exc = DoutPinMessage
    /\ hx711 # None
    /\ gain = 128
    /\ baseline.set

\* C25: a call that fetches does so once, on a handle that was reset: the
\* one it found stored, or the one it constructed and reset itself; it has
\* not failed to acquire, and the device never reports a fetch before reset.
C25_FetchOnResetHandle ==
    [][last'.fetches > 0 =>
          /\ last'.op \in {"get_readings", "tare", "do_command"}
          /\ last'.fetches = 1
          /\ RaisedBy({"HX711", "reset"})' = {}
          /\ NotResetError \notin RaisedBy({"get_raw_data"})'
          /\ IF hx711 # None
             THEN hx711.is_reset /\ last'.constructs = 0 /\ last'.resets = 0
             ELSE last'.constructs = 1 /\ last'.resets = 1
      ]_vars

\* C25 witness: a get_readings() after a failed one constructed, reset and
\* fetched.
C25_Witness ==
    /\ Returned("get_readings")
    /\ last.constructs = 1
    /\ last.resets = 1
    /\ last.fetches = 1
    /\ hx711 # None

\* C26: GPIO.cleanup is called by close() only, whatever the other calls do
\* and however they fail.
C26_OnlyCloseReleasesPins ==
    last.op # "close" => last.cleanups = <<>>

\* C26 witness: a get_readings() whose fetch raised dropped the handle and
\* called no GPIO primitive.
C26_Witness ==
    /\ last.op = "get_readings"
    /\ last.exc = TimeoutError
    /\ hx711 = None
    /\ last.cleanups = <<>>

\* C27: gain, doutPin, sckPin and numberOfReadings change in reconfigure()
\* only; tare_offset changes in reconfigure() and in a tare that succeeded
\* only; get_readings(), a failed tare(), get_hx711() and close() change
\* none of the five.
C27_ConfigurationFrame ==
    [][/\ last'.op # "reconfigure" =>
              UNCHANGED <<gain, doutPin, sckPin, numberOfReadings>>
       /\ tare_offset' # tare_offset =>
              \/ last'.op = "reconfigure"
              \/ /\ last'.op \in {"tare", "do_command"}
                 /\ last'.fetched = "data"
                 /\ last'.raises = <<>>
       /\ (\/ last'.op \in {"get_readings", "get_hx711", "close"}
           \/ last'.op = "tare" /\ last'.exc # NoExc) =>
              UNCHANGED <<gain, doutPin, sckPin, numberOfReadings, tare_offset>>
      ]_vars

\* C27 witness: close() under a tared configuration of all five keys.
C27_Witness ==
    /\ last.op = "close"
    /\ <<gain, doutPin, sckPin, numberOfReadings>> = <<128, 7, 8, 1>>
    /\ baseline.set
    /\ tare_offset = [num |-> 81900, den |-> 1]

\* C28: do_command() with a "tare" entry calls tare() whatever the entry's
\* argument list holds: the call acquires the handle, and fails only when
\* tare() does.
C28_TareArgumentsIgnored ==
    (/\ last.op = "do_command"
     /\ \E i \in DOMAIN last.arg : last.arg[i].name = "tare") =>
        /\ last.fetches = 1 \/ RaisedBy({"HX711", "reset"}) # {}
        /\ last.exc # TypeError \/ last.fetched = "invalid"

\* C30: a get_readings() or tare() that fetched and then raised, whatever
\* raised (the fetch, the conversion of malformed samples, the mean of no
\* sample), leaves no handle stored, returns nothing and leaves tare_offset
\* as it was.
C30_AnyFailureInvalidates ==
    [][(/\ last'.op \in {"get_readings", "tare"}
        /\ last'.fetches = 1
        /\ last'.exc # NoExc) =>
           /\ hx711' = None
           /\ last'.ret = NoReturn
           /\ tare_offset' = tare_offset
           /\ last'.fetched = "raise" => last'.exc \in RaisedBy({"get_raw_data"})'
           /\ last'.fetched = "invalid" => last'.exc = TypeError
      ]_vars

\* C30 witness: a tare() on a stored handle got the malformed list, raised
\* TypeError and left an offset of 100 as it was.
C30_Witness ==
    /\ last.op = "tare"
    /\ last.constructs = 0
    /\ last.fetched = "invalid"
    /\ last.exc = TypeError
    /\ hx711 = None
    /\ tare_offset = [num |-> 100, den |-> 1]

C29_NoInterleaving ==
    /\ \A name \in DOMAIN tasks : tasks[name] = "start"
    /\ Cardinality({name \in DOMAIN tasks : tasks[name] = "get_raw_data"}) <= 1
    /\ Returned("get_readings") =>
           \A i \in DOMAIN last.ret.measures :
               RAdd(RMulInt(last.ret.measures[i], CountsPerKg),
                    RMulInt(last.ret.tare_offset, CountsPerKg))
                   = FromInt(last.samples[i])
    /\ hx711 # None => hx711.is_reset /\ hx711.call_count = 1
    /\ last.constructs <= 1

\* C29 witness: of the three tasks started together, tare ran, then
\* get_readings returned a weight of 0 on the same samples, and do_command
\* has not run yet.
C29_Witness ==
    /\ DOMAIN tasks = {"do_command"}
    /\ Returned("get_readings")
    /\ baseline.set
    /\ last.samples = baseline.samples
    /\ last.ret.weight = [num |-> 0, den |-> 1]

\* C31: a do_command() in which the tare fails returns no map, lets the
\* exception through, leaves no handle stored and leaves tare_offset as it
\* was.
C31_FailedTareCommand ==
    [][(/\ last'.op = "do_command"
        /\ \E i \in DOMAIN last'.arg : last'.arg[i].name = "tare"
        /\ last'.exc # NoExc) =>
           /\ last'.ret = NoReturn
           /\ hx711' = None
           /\ tare_offset' = tare_offset
      ]_vars

\* C32: close() releases the pin pair the stored handle was constructed on.
C32_CloseReleasesHandlePins ==
    [][(last'.op = "close" /\ hx711 # None) =>
           last'.cleanups = <<<<hx711.dout_pin, hx711.pd_sck_pin>>>>
      ]_vars

\* The last call was a reconfigure() that found no handle and could not make
\* one.
FailedReconfigure ==
    /\ last.op = "reconfigure"
    /\ last.exc # NoExc
    /\ last.exc \in RaisedBy({"HX711", "reset"})

\* C33, as stated: a reconfigure() that fails to make the handle leaves the
\* handle None and the configuration stored before the call.
C33_FailedReconfigureRollsBack ==
    [][FailedReconfigure' =>
           /\ hx711' = None
           /\ UNCHANGED <<gain, doutPin, sckPin, numberOfReadings, tare_offset>>
      ]_vars

\* C33, amended: a reconfigure() that fails to make the handle found none
\* stored, lets the constructor's or reset()'s exception through, leaves the
\* handle None, and leaves the new configuration installed: each attribute
\* is the value the configuration gives, or its default.
C33_FailedReconfigureInstalls ==
    [][FailedReconfigure' =>
           LET attrs == last'.arg
               given(key) == key \in DOMAIN attrs
           IN  /\ hx711 = None /\ hx711' = None
               /\ last'.ret = NoReturn
               /\ gain' = IF given("gain") THEN attrs["gain"] ELSE DefaultGain
               /\ doutPin' =
                      IF given("doutPin") THEN attrs["doutPin"] ELSE DefaultDoutPin
               /\ sckPin' =
                      IF given("sckPin") THEN attrs["sckPin"] ELSE DefaultSckPin
               /\ numberOfReadings' =
                      IF given("numberOfReadings")
                      THEN attrs["numberOfReadings"]
                      ELSE DefaultNumberOfReadings
               /\ tare_offset' =
                      FromInt(IF given("tare_offset")
                              THEN attrs["tare_offset"] ELSE DefaultTareOffset)
      ]_vars

\* C33 witness: reconfigure() with all five keys failed in reset() on a
\* driver without handle, and the five values are installed.
C33_Witness ==
    /\ FailedReconfigure
    /\ last.exc = ResetError
    /\ DOMAIN last.arg = Keys
    /\ hx711 = None
    /\ <<gain, doutPin, sckPin, numberOfReadings>> = <<128, 7, 8, 2>>
    /\ tare_offset = [num |-> 100, den |-> 1]

\* C34: a get_readings() or tare() after close() finds no handle, constructs
\* once and resets once on the configured pins, and returns when the
\* hardware works; a close() after close() raises nothing and leaves no
\* handle.
C34_CloseNotTerminal ==
    [][last.op = "close" =>
           /\ last'.op \in {"get_readings", "tare"} =>
                  /\ hx711 = None
                  /\ last'.constructs = 1
                  /\ HardwareWorked' =>
                         /\ last'.resets = 1
                         /\ last'.exc = NoExc
                         /\ hx711' # None
                         /\ hx711'.dout_pin = doutPin
                         /\ hx711'.pd_sck_pin = sckPin
           /\ last'.op = "close" => last'.exc = NoExc /\ hx711' = None
      ]_vars

\* The last BmpSensor call was do_command with the command named name.
IsCommand(name) ==
    /\ bmp.last.op = "do_command"
    /\ "command" \in DOMAIN bmp.last.arg
    /\ bmp.last.arg["command"].kind = "str"
    /\ Lower(bmp.last.arg["command"].val) = name

\* Both offsets of the BmpSensor are 0.
OffsetsCleared == bmp.self.pressure_offset = 0 /\ bmp.self.altitude_offset = 0

\* A get_readings() after a tare that succeeded, with the raw pressure and
\* the raw altitude the tare read, reports pressure 0 and altitude 0, the
\* raw values and the offsets.
TareThenReading ==
    (/\ IsCommand("tare")
     /\ "status" \in DOMAIN bmp.last.ret
     /\ bmp'.last.op = "get_readings"
     /\ DOMAIN bmp'.last.ret # {}
     /\ bmp'.last.ret["raw_pressure - Pa"] = bmp.last.ret["pressure_offset"]
     /\ bmp'.last.ret["raw_altitude - m"] = bmp.last.ret["altitude_offset"]) =>
        /\ bmp'.last.ret["pressure - Pa"] = 0
        /\ bmp'.last.ret["altitude - m"] = 0
        /\ bmp'.last.ret["pressure_offset - Pa"] = bmp.last.ret["pressure_offset"]
        /\ bmp'.last.ret["altitude_offset - m"] = bmp.last.ret["altitude_offset"]
        /\ {"raw_pressure - Pa", "raw_altitude - m"} \subseteq DOMAIN bmp'.last.ret

\* C35, as stated: after a reconfigure() that returned and after every
\* do_command 'reset_tare' both offsets are 0, and a reading after a tare on
\* unchanged raw values is 0.
C35_OffsetsZeroed ==
    /\ []((bmp.last.op \in {"new", "reconfigure"} /\ bmp.last.exc = NoExc) =>
              OffsetsCleared)
    /\ [](IsCommand("reset_tare") => OffsetsCleared)
    /\ [][TareThenReading]_vars

\* C35, amended: after a reconfigure() that returned and after a
\* 'reset_tare' that was carried out (status tare_reset) both offsets are 0;
\* a 'reset_tare' on a BmpSensor whose last reconfigure() failed answers with
\* an error and leaves the offsets; a reading after a tare on unchanged raw
\* values is 0.
C35_OffsetsZeroedWhenDone ==
    /\ []((bmp.last.op \in {"new", "reconfigure"} /\ bmp.last.exc = NoExc) =>
              OffsetsCleared)
    /\ [](IsCommand("reset_tare") =>
              IF bmp.self.sensor # None
              THEN /\ OffsetsCleared
                   /\ bmp.last.ret["status"] = "tare_reset"
              ELSE DOMAIN bmp.last.ret = {"error"})
    /\ [][(bmp.self.sensor = None /\ bmp'.last.op = "do_command") =>
              /\ bmp'.self = bmp.self
              /\ DOMAIN bmp'.last.ret = {"error"}]_vars
    /\ [][TareThenReading]_vars

\* C35 witness: after a tare at 101325 Pa and 110 m, a reading of the same
\* raw values reports 0 and 0.
C35_Witness ==
    /\ bmp.last.op = "get_readings"
    /\ DOMAIN bmp.last.ret # {}
    /\ bmp.self.pressure_offset = 101325
    /\ bmp.self.altitude_offset = 110
    /\ bmp.last.ret["raw_pressure - Pa"] = 101325
    /\ bmp.last.ret["raw_altitude - m"] = 110
    /\ bmp.last.ret["pressure - Pa"] = 0
    /\ bmp.last.ret["altitude - m"] = 0

\* C36: get_readings() and do_command() of the BmpSensor raise nothing: a
\* read that fails yields {} and a command that fails or is unknown yields a
\* map with the key error; a 'tare' in which a read raises leaves both
\* offsets as they were.
C36_BmpNeverRaises ==
    /\ [](bmp.last.op \in {"get_readings", "do_command"} =>
              bmp.last.exc = NoExc)
    /\ [][(/\ bmp'.last.op = "do_command"
           /\ IsCommand("tare")'
           /\ "status" \notin DOMAIN bmp'.last.ret) =>
              /\ "error" \in DOMAIN bmp'.last.ret
              /\ bmp'.self.pressure_offset = bmp.self.pressure_offset
              /\ bmp'.self.altitude_offset = bmp.self.altitude_offset
         ]_vars

====
